---- MODULE Spec2Model ----
(***************************************************************************)
(* A model of src/main.py, the resume tailoring script: module-level API   *)
(* configuration, main() (argument check, input loading, the tailoring     *)
(* call, the confirmation and filename prompts) and compile_latex_to_pdf   *)
(* (two pdflatex passes in a temporary directory, then the copy).          *)
(*                                                                         *)
(* Strings are sequences of one-character strings, so that strip, lower,   *)
(* basename, dirname, split, replace and endswith are computed as Python   *)
(* computes them.  File contents are sequences over a prefix-free set of   *)
(* text pieces (see Chunks), which keeps string equality exact.            *)
(***************************************************************************)
EXTENDS Integers, Sequences, FiniteSets, TLC

VARIABLES
    pc,                     \* position of the single thread of control
    sys_argv,               \* sys.argv, program name first
    key_valid,              \* environment: the service accepts the configured key
    opened,                 \* paths whose open() succeeded, in order
    not_found,              \* paths whose open() raised FileNotFoundError
    original_resume_latex,  \* main: contents of the resume file
    jd_text,                \* main: contents of the job-description file
    full_prompt,            \* the last request payload handed to generate_content
    api_calls,              \* number of generate_content calls made
    customized_latex,       \* main: result of get_customized_latex
    line,                   \* the last raw line input() returned
    confirm,                \* main: the normalised confirmation answer
    name_prompted,          \* the filename prompt has been shown
    chosen,                 \* the filename accepted at the prompt, before the extension step
    pdf_filename,           \* main: the filename handed to compile_latex_to_pdf
    tempdir,                \* "none", "live" or "removed"
    pass_results,           \* outcome of each pdflatex invocation, in order
    fs_log,                 \* what os.path.exists(log_filepath) answered
    fs_pdf,                 \* what os.path.exists(pdf_filepath) answered
    written,                \* destination paths shutil.copy wrote, in order
    compile_result,         \* return value of compile_latex_to_pdf
    printed,                \* the set of messages printed so far
    exit_status             \* process exit status; -1 while the process runs

vars == <<pc, sys_argv, key_valid, opened, not_found, original_resume_latex,
          jd_text, full_prompt, api_calls, customized_latex, line, confirm,
          name_prompted, chosen, pdf_filename, tempdir, pass_results, fs_log,
          fs_pdf, written, compile_result, printed, exit_status>>

-----------------------------------------------------------------------------
(* Bounds *)

\* most spaces before, and after, the word typed at the confirmation prompt
MaxPad == 1
\* longest free part of an operator answer at the filename prompt
MaxStem == 2
\* longest file content, in text pieces, when the payload is examined
MaxText == 3

SeqUpTo(S, n) == UNION {[1..k -> S] : k \in 0..n}

-----------------------------------------------------------------------------
(* Python string operations *)

Space == " "
Slash == "/"
Dot == "."

\* str.lower(), per character
LowerChar(c) ==
    CASE c = "Y" -> "y"
      [] c = "E" -> "e"
      [] c = "S" -> "s"
      [] c = "N" -> "n"
      [] c = "O" -> "o"
      [] c = "P" -> "p"
      [] c = "D" -> "d"
      [] c = "F" -> "f"
      [] c = "R" -> "r"
      [] c = "J" -> "j"
      [] c = "A" -> "a"
      [] OTHER -> c

Lower(s) == [i \in 1..Len(s) |-> LowerChar(s[i])]

\* str.strip(): leading and trailing whitespace removed
Strip(s) ==
    LET keep == {i \in 1..Len(s) : s[i] # Space}
    IN  IF keep = {} THEN <<>>
        ELSE LET first == CHOOSE i \in keep : \A j \in keep : i <= j
                 last  == CHOOSE i \in keep : \A j \in keep : j <= i
             IN  SubSeq(s, first, last)

\* str.rfind(c) + 1: the position just after the last c, 0 when there is none
AfterLast(s, c) ==
    LET at == {i \in 1..Len(s) : s[i] = c}
    IN  IF at = {} THEN 0 ELSE CHOOSE i \in at : \A j \in at : j <= i

\* str.split(c)[0]: everything before the first c
SplitFirst(s, c) ==
    LET at == {i \in 1..Len(s) : s[i] = c}
    IN  IF at = {} THEN s
        ELSE SubSeq(s, 1, (CHOOSE i \in at : \A j \in at : i <= j) - 1)

\* str.replace(a, b) for single characters
Replace(s, a, b) == [i \in 1..Len(s) |-> IF s[i] = a THEN b ELSE s[i]]

\* str.endswith(suffix)
EndsWith(s, suffix) ==
    /\ Len(s) >= Len(suffix)
    /\ SubSeq(s, Len(s) - Len(suffix) + 1, Len(s)) = suffix

\* str.rstrip(c)
RStrip(s, c) ==
    LET keep == {i \in 1..Len(s) : s[i] # c}
    IN  IF keep = {} THEN <<>>
        ELSE SubSeq(s, 1, CHOOSE i \in keep : \A j \in keep : j <= i)

\* os.path.basename (posixpath): everything after the last slash
Basename(p) == SubSeq(p, AfterLast(p, Slash) + 1, Len(p))

\* os.path.dirname (posixpath): the head up to the last slash, its trailing
\* slashes removed unless it consists of slashes only
Dirname(p) ==
    LET head == SubSeq(p, 1, AfterLast(p, Slash))
    IN  IF head # <<>> /\ RStrip(head, Slash) # <<>> THEN RStrip(head, Slash)
        ELSE head

-----------------------------------------------------------------------------
(* Program constants *)

Newline == "\n"
\* the body of SYSTEM_PROMPT between its first and last line break, one piece
Instructions == "You are an expert career coach ... Modify the resume according to these rules."
JdMarker == "--- JOB DESCRIPTION ---"
ResumeMarker == "--- LATEX RESUME ---"

\* SYSTEM_PROMPT: a triple-quoted literal that starts and ends with a line break
SYSTEM_PROMPT == <<Newline, Instructions, Newline>>
\* "\n\n--- JOB DESCRIPTION ---\n" and "\n\n--- LATEX RESUME ---\n"
JdSeparator == <<Newline, Newline, JdMarker, Newline>>
ResumeSeparator == <<Newline, Newline, ResumeMarker, Newline>>

\* The text pieces file contents are built from.  No piece is a prefix of
\* another, so two sequences of pieces are equal exactly when the strings they
\* spell are equal.
Chunks == {Newline, ResumeMarker, "a"}

\* '.pdf'
PdfExtension == <<".", "p", "d", "f">>
\* "Resume_JohnDoe_for_"
DefaultPrefix ==
    <<"R","e","s","u","m","e","_","J","o","h","n","D","o","e","_","f","o","r","_">>

YesAnswers == {<<"y">>, <<"y","e","s">>}
NoAnswers == {<<"n">>, <<"n","o">>}

\* Python's None and a str value
None == [none |-> TRUE, text |-> <<>>]
Str(t) == [none |-> FALSE, text |-> t]

Msg(kind, arg) == [kind |-> kind, arg |-> arg]

-----------------------------------------------------------------------------
(* Inputs *)

ProgramName == <<"m">>
ResumePath == <<"r">>
\* acme.txt-like, with a directory, with a space, hidden, and a bare name with
\* a space under a dotted directory
JdPaths ==
    { <<"a",".","t">>, <<"d","/","a",".","t">>, <<"a"," ","b",".","t">>,
      <<".","h">>, <<"d",".","x","/","a"," ","b">> }

Argvs ==
    {<<ProgramName>>, <<ProgramName, ResumePath>>,
     <<ProgramName, ResumePath, <<"a",".","t">>, <<"x">>>>}
    \cup {<<ProgramName, ResumePath, j>> : j \in JdPaths}

\* contents of the input files in whole-program runs, which never look at them;
\* SpecPayload below draws them from Texts
FileSamples == {<<"a", Newline>>}
\* contents of the input files when the payload is examined
Texts == SeqUpTo(Chunks, MaxText)
\* response.text of a call that returns
ResponseTexts == {<<>>, <<"a">>}

\* Words typed at the confirmation prompt: every spelling of y, yes, n and no
\* in either case, and words that are none of them
AnswerLetters == {"y", "Y", "e", "E", "s", "S", "n", "N", "o", "O"}
Spellings(w) ==
    {s \in [1..Len(w) -> AnswerLetters] : \A i \in 1..Len(w) : LowerChar(s[i]) = w[i]}
OtherWords ==
    { <<>>, <<"x">>, <<"y","e">>, <<"n"," ","o">>, <<"n","o","n">>, <<"y","y">> }
AnswerWords ==
    UNION {Spellings(w) : w \in YesAnswers \cup NoAnswers} \cup OtherWords
Pads == SeqUpTo({Space}, MaxPad)
ConfirmInputs == {l \o w \o t : l \in Pads, w \in AnswerWords, t \in Pads}

StemChars == {"a", Slash, Space}
Endings == { <<>>, PdfExtension, <<".","P","d","F">>, <<".","p","d">> }
NameInputs ==
    {s \o e \o t : s \in SeqUpTo(StemChars, MaxStem), e \in Endings,
                   t \in {<<>>, <<Space>>}}

PassOutcomes == {"ok", "nonzero", "notfound"}

-----------------------------------------------------------------------------
(* Decisions of the code *)

\* main: len(sys.argv) != 3
WrongArgCount(av) == Len(av) # 3

\* a handler that prints resume_file_path whichever open() failed
MissingFileMessageResumeOnly(resume_path, jd_path, failed) ==
    Msg("file_not_found", resume_path)

\* main: the except FileNotFoundError handler prints e.filename
MissingFileMessage(resume_path, jd_path, failed) == Msg("file_not_found", failed)

\* the two texts put into the f-string in the other order
BuildPromptResumeFirst(jd, resume) ==
    SYSTEM_PROMPT \o JdSeparator \o resume \o ResumeSeparator \o jd

\* get_customized_latex: the f-string
BuildPrompt(jd, resume) ==
    SYSTEM_PROMPT \o JdSeparator \o jd \o ResumeSeparator \o resume

\* a test for None only, which lets the empty string through
IsNoneOnly(x) == x.none

\* main: not customized_latex
IsFalsy(x) == x.none \/ x.text = <<>>

\* the answer trimmed but not lower-cased
ConfirmNormalizeCaseSensitive(raw) == Strip(raw)

\* main: input(...).lower().strip()
ConfirmNormalize(raw) == Strip(Lower(raw))

\* main: os.path.basename(jd_file_path).split('.')[0].replace(' ', '_')
CompanyName(jd_path) == Replace(SplitFirst(Basename(jd_path), Dot), Space, "_")

\* main: f"Resume_JohnDoe_for_{company_name}.pdf"
DefaultName(jd_path) == DefaultPrefix \o CompanyName(jd_path) \o PdfExtension

\* a guard that rejects absolute paths only
HasLeadingSlash(name) == name # <<>> /\ name[1] = Slash

\* main: if os.path.dirname(pdf_filename)
HasDirectory(name) == Dirname(name) # <<>>

\* the extension test without lower()
HasPdfExtensionCaseSensitive(name) == EndsWith(name, PdfExtension)

\* main: pdf_filename.lower().endswith('.pdf')
HasPdfExtension(name) == EndsWith(Lower(name), PdfExtension)

\* subprocess.run without check=True: only a missing executable raises
PassRaisesOnlyWhenMissing(outcome) == outcome = "notfound"

\* compile_latex_to_pdf: subprocess.run(..., check=True) raises
\* CalledProcessError on a non-zero exit and FileNotFoundError when the
\* executable is missing
PassRaises(outcome) == outcome # "ok"

\* compile_latex_to_pdf: the log is read only for a CalledProcessError and
\* only when os.path.exists(log_filepath)
ShowsLog(outcome, log_there) == outcome = "nonzero" /\ log_there

\* the copy attempted without looking for the output file
ShouldCopyAlways(pdf_there) == TRUE

\* compile_latex_to_pdf: if os.path.exists(pdf_filepath)
ShouldCopy(pdf_there) == pdf_there

\* main returns after either final message, so the interpreter exits with 0
StatusAfterCompile(ok) == 0

-----------------------------------------------------------------------------
(* State after the interpreter has started, before any statement has run *)

Init ==
    /\ pc = "import"
    /\ sys_argv \in Argvs
    /\ key_valid \in BOOLEAN
    /\ opened = <<>>
    /\ not_found = <<>>
    /\ original_resume_latex = <<>>
    /\ jd_text = <<>>
    /\ full_prompt = <<>>
    /\ api_calls = 0
    /\ customized_latex = None
    /\ line = <<>>
    /\ confirm = <<>>
    /\ name_prompted = FALSE
    /\ chosen = <<>>
    /\ pdf_filename = <<>>
    /\ tempdir = "none"
    /\ pass_results = <<>>
    /\ fs_log = "unknown"
    /\ fs_pdf = "unknown"
    /\ written = <<>>
    /\ compile_result = "none"
    /\ printed = {}
    /\ exit_status = -1

\* sys.exit(status), an uncaught exception (status 1), or main returning (0)
Exit(status) ==
    /\ pc' = "exited"
    /\ exit_status' = status

-----------------------------------------------------------------------------
(* Module level *)

\* genai.configure(api_key="Put API Key here"): the argument is a literal, no
\* environment lookup happens, so nothing here raises KeyError and the except
\* branch never runs.  configure only stores the key; the service sees it on
\* the first request.  Then main() is called.
Configure ==
    /\ pc = "import"
    /\ pc' = "main"
    /\ UNCHANGED <<sys_argv, key_valid, opened, not_found, original_resume_latex,
                   jd_text, full_prompt, api_calls, customized_latex, line,
                   confirm, name_prompted, chosen, pdf_filename, tempdir,
                   pass_results, fs_log, fs_pdf, written, compile_result,
                   printed, exit_status>>

-----------------------------------------------------------------------------
(* main: arguments and input files *)

CheckArgs ==
    /\ pc = "main"
    /\ \/ /\ WrongArgCount(sys_argv)
          /\ printed' = printed \cup {Msg("usage", <<>>)}
          /\ Exit(1)
       \/ /\ ~WrongArgCount(sys_argv)
          /\ pc' = "open_resume"
          /\ UNCHANGED <<printed, exit_status>>
    /\ UNCHANGED <<sys_argv, key_valid, opened, not_found, original_resume_latex,
                   jd_text, full_prompt, api_calls, customized_latex, line,
                   confirm, name_prompted, chosen, pdf_filename, tempdir,
                   pass_results, fs_log, fs_pdf, written, compile_result>>

\* open(resume_file_path) and f.read(); whether the path exists is the file
\* system's answer at that moment
OpenResume ==
    /\ pc = "open_resume"
    /\ \/ \E text \in FileSamples :
             /\ opened' = Append(opened, sys_argv[2])
             /\ original_resume_latex' = text
             /\ pc' = "open_jd"
             /\ UNCHANGED <<not_found, printed, exit_status>>
       \/ /\ not_found' = Append(not_found, sys_argv[2])
          /\ printed' = printed \cup
                 {MissingFileMessage(sys_argv[2], sys_argv[3], sys_argv[2])}
          /\ Exit(1)
          /\ UNCHANGED <<opened, original_resume_latex>>
    /\ UNCHANGED <<sys_argv, key_valid, jd_text, full_prompt, api_calls,
                   customized_latex, line, confirm, name_prompted, chosen,
                   pdf_filename, tempdir, pass_results, fs_log, fs_pdf, written,
                   compile_result>>

\* open(jd_file_path) and f.read()
OpenJd ==
    /\ pc = "open_jd"
    /\ \/ \E text \in FileSamples :
             /\ opened' = Append(opened, sys_argv[3])
             /\ jd_text' = text
             /\ pc' = "tailor"
             /\ UNCHANGED <<not_found, printed, exit_status>>
       \/ /\ not_found' = Append(not_found, sys_argv[3])
          /\ printed' = printed \cup
                 {MissingFileMessage(sys_argv[2], sys_argv[3], sys_argv[3])}
          /\ Exit(1)
          /\ UNCHANGED <<opened, jd_text>>
    /\ UNCHANGED <<sys_argv, key_valid, original_resume_latex, full_prompt,
                   api_calls, customized_latex, line, confirm, name_prompted,
                   chosen, pdf_filename, tempdir, pass_results, fs_log, fs_pdf,
                   written, compile_result>>

-----------------------------------------------------------------------------
(* get_customized_latex, and main up to the confirmation prompt *)

\* What main does with the value get_customized_latex returned
AfterTailoring(result) ==
    /\ customized_latex' = result
    /\ \/ /\ IsFalsy(result)
          /\ printed' = printed \cup
                 {Msg("sending", <<>>), Msg("no_response", <<>>)}
                 \cup (IF result.none THEN {Msg("api_error", <<>>)} ELSE {})
          /\ Exit(1)
       \/ /\ ~IsFalsy(result)
          /\ printed' = printed \cup
                 {Msg("sending", <<>>), Msg("review", result.text)}
          /\ pc' = "confirm"
          /\ UNCHANGED exit_status

\* One generate_content call.  The service rejects an invalid key, and any
\* call may fail (transport, blocked response); every exception is caught and
\* turned into None.
Tailor ==
    /\ pc = "tailor"
    /\ full_prompt' = BuildPrompt(jd_text, original_resume_latex)
    /\ api_calls' = api_calls + 1
    /\ \/ AfterTailoring(None)
       \/ /\ key_valid
          /\ \E text \in ResponseTexts : AfterTailoring(Str(text))
    /\ UNCHANGED <<sys_argv, key_valid, opened, not_found, original_resume_latex,
                   jd_text, line, confirm, name_prompted, chosen, pdf_filename,
                   tempdir, pass_results, fs_log, fs_pdf, written,
                   compile_result>>

-----------------------------------------------------------------------------
(* main: the confirmation prompt *)

Confirm ==
    /\ pc = "confirm"
    /\ \E raw \in ConfirmInputs :
          /\ line' = raw
          /\ confirm' = ConfirmNormalize(raw)
          /\ \/ /\ confirm' \in YesAnswers
                /\ pc' = "naming"
                /\ UNCHANGED <<printed, exit_status>>
             \/ /\ confirm' \notin YesAnswers
                /\ confirm' \in NoAnswers
                /\ printed' = printed \cup {Msg("aborted", <<>>)}
                /\ Exit(0)
             \/ /\ confirm' \notin YesAnswers
                /\ confirm' \notin NoAnswers
                /\ printed' = printed \cup {Msg("invalid_answer", <<>>)}
                /\ UNCHANGED <<pc, exit_status>>
    /\ UNCHANGED <<sys_argv, key_valid, opened, not_found, original_resume_latex,
                   jd_text, full_prompt, api_calls, customized_latex,
                   name_prompted, chosen, pdf_filename, tempdir, pass_results,
                   fs_log, fs_pdf, written, compile_result>>

\* input() at end of input: EOFError is caught nowhere, the traceback is
\* printed and the interpreter exits with status 1
InputEOF ==
    /\ pc \in {"confirm", "naming"}
    /\ name_prompted' = (name_prompted \/ pc = "naming")
    /\ printed' = printed \cup {Msg("traceback", <<>>)}
    /\ Exit(1)
    /\ UNCHANGED <<sys_argv, key_valid, opened, not_found, original_resume_latex,
                   jd_text, full_prompt, api_calls, customized_latex, line,
                   confirm, chosen, pdf_filename, tempdir, pass_results, fs_log,
                   fs_pdf, written, compile_result>>

-----------------------------------------------------------------------------
(* main: the filename prompt *)

Naming ==
    /\ pc = "naming"
    /\ \E raw \in NameInputs :
          LET typed == Strip(raw)
              name  == IF typed = <<>> THEN DefaultName(sys_argv[3]) ELSE typed
          IN  /\ line' = raw
              /\ name_prompted' = TRUE
              /\ \/ /\ HasDirectory(name)
                    /\ pdf_filename' = name
                    /\ printed' = printed \cup {Msg("invalid_filename", <<>>)}
                    /\ UNCHANGED <<pc, chosen>>
                 \/ /\ ~HasDirectory(name)
                    /\ chosen' = name
                    /\ pdf_filename' = IF HasPdfExtension(name) THEN name
                                       ELSE name \o PdfExtension
                    /\ pc' = "compile"
                    /\ UNCHANGED printed
    /\ UNCHANGED <<sys_argv, key_valid, opened, not_found, original_resume_latex,
                   jd_text, full_prompt, api_calls, customized_latex, confirm,
                   tempdir, pass_results, fs_log, fs_pdf, written,
                   compile_result, exit_status>>

-----------------------------------------------------------------------------
(* compile_latex_to_pdf, and main's final message *)

\* The temporary directory is created and source.tex written into it
CompileStart ==
    /\ pc = "compile"
    /\ tempdir' = "live"
    /\ printed' = printed \cup {Msg("compiling", <<>>)}
    /\ pc' = "pass1"
    /\ UNCHANGED <<sys_argv, key_valid, opened, not_found, original_resume_latex,
                   jd_text, full_prompt, api_calls, customized_latex, line,
                   confirm, name_prompted, chosen, pdf_filename, pass_results,
                   fs_log, fs_pdf, written, compile_result, exit_status>>

\* compile_latex_to_pdf returns False: the with block removes the temporary
\* directory, main prints its failure message and returns
ReturnFalse(messages) ==
    /\ tempdir' = "removed"
    /\ compile_result' = "false"
    /\ printed' = printed \cup messages \cup {Msg("failed_to_create", <<>>)}
    /\ Exit(StatusAfterCompile(FALSE))

\* One subprocess.run of pdflatex inside the try block
RunPass(next) ==
    \E outcome \in PassOutcomes :
       /\ pass_results' = Append(pass_results, outcome)
       /\ \/ /\ ~PassRaises(outcome)
             /\ pc' = next
             /\ UNCHANGED <<tempdir, fs_log, compile_result, printed, exit_status>>
          \/ /\ PassRaises(outcome)
             /\ outcome = "notfound"
             /\ ReturnFalse({Msg("compile_failed", <<>>),
                             Msg("pdflatex_not_found", <<>>)})
             /\ UNCHANGED fs_log
          \/ /\ PassRaises(outcome)
             /\ outcome # "notfound"
             /\ \E log_there \in BOOLEAN :
                   /\ fs_log' = IF log_there THEN "present" ELSE "absent"
                   /\ ReturnFalse({Msg("compile_failed", <<>>)} \cup
                          (IF ShowsLog(outcome, log_there)
                           THEN {Msg("compilation_log", <<>>)} ELSE {}))

RunPass1 ==
    /\ pc = "pass1"
    /\ RunPass("pass2")
    /\ UNCHANGED <<sys_argv, key_valid, opened, not_found, original_resume_latex,
                   jd_text, full_prompt, api_calls, customized_latex, line,
                   confirm, name_prompted, chosen, pdf_filename, fs_pdf, written>>

RunPass2 ==
    /\ pc = "pass2"
    /\ RunPass("copy")
    /\ UNCHANGED <<sys_argv, key_valid, opened, not_found, original_resume_latex,
                   jd_text, full_prompt, api_calls, customized_latex, line,
                   confirm, name_prompted, chosen, pdf_filename, fs_pdf, written>>

\* After the try block: the copy to the destination, or the missing-PDF report
CopyOutput ==
    /\ pc = "copy"
    /\ \E pdf_there \in BOOLEAN :
          /\ fs_pdf' = IF pdf_there THEN "present" ELSE "absent"
          /\ \/ /\ ShouldCopy(pdf_there)
                /\ written' = Append(written, pdf_filename)
                /\ tempdir' = "removed"
                /\ compile_result' = "true"
                /\ printed' = printed \cup {Msg("success", pdf_filename)}
                /\ Exit(StatusAfterCompile(TRUE))
             \/ /\ ~ShouldCopy(pdf_there)
                /\ ReturnFalse({Msg("no_pdf_found", <<>>)})
                /\ UNCHANGED written
    /\ UNCHANGED <<sys_argv, key_valid, opened, not_found, original_resume_latex,
                   jd_text, full_prompt, api_calls, customized_latex, line,
                   confirm, name_prompted, chosen, pdf_filename, pass_results,
                   fs_log>>

-----------------------------------------------------------------------------
(* The whole program *)

Next ==
    \/ Configure
    \/ CheckArgs
    \/ OpenResume
    \/ OpenJd
    \/ Tailor
    \/ Confirm
    \/ InputEOF
    \/ Naming
    \/ CompileStart
    \/ RunPass1
    \/ RunPass2
    \/ CopyOutput

Spec == Init /\ [][Next]_vars

-----------------------------------------------------------------------------
(* The payload alone: both files have been read, with contents drawn from    *)
(* Texts, and the tailoring call is about to be made.                        *)

InitPayload ==
    /\ pc = "tailor"
    /\ sys_argv = <<ProgramName, ResumePath, <<"a",".","t">>>>
    /\ key_valid \in BOOLEAN
    /\ opened = <<ResumePath, <<"a",".","t">>>>
    /\ not_found = <<>>
    /\ original_resume_latex \in Texts
    /\ jd_text \in Texts
    /\ full_prompt = <<>>
    /\ api_calls = 0
    /\ customized_latex = None
    /\ line = <<>>
    /\ confirm = <<>>
    /\ name_prompted = FALSE
    /\ chosen = <<>>
    /\ pdf_filename = <<>>
    /\ tempdir = "none"
    /\ pass_results = <<>>
    /\ fs_log = "unknown"
    /\ fs_pdf = "unknown"
    /\ written = <<>>
    /\ compile_result = "none"
    /\ printed = {}
    /\ exit_status = -1

NextPayload == Tailor

SpecPayload == InitPayload /\ [][NextPayload]_vars

-----------------------------------------------------------------------------
(* Vocabulary of the properties, stated without the program's own helpers *)

Chars(s) == {s[i] : i \in 1..Len(s)}
Kinds == {m.kind : m \in printed}

\* compile_latex_to_pdf has been entered, or is about to be
HandedToCompiler == pc = "compile" \/ tempdir # "none"

\* the step taken read a line from the operator (it is not the EOFError step)
ReadsLine == vars' # vars /\ Msg("traceback", <<>>) \notin printed'

\* raw is w with nothing but spaces before and after it
Padded(raw, w) ==
    \E i \in 0..Len(raw) :
       /\ i + Len(w) <= Len(raw)
       /\ \A k \in 1..i : raw[k] = Space
       /\ \A k \in 1..Len(w) : raw[i + k] = w[k]
       /\ \A k \in (i + Len(w) + 1)..Len(raw) : raw[k] = Space

SaysNo(raw) ==
    \E w \in {<<"n">>, <<"N">>, <<"n","o">>, <<"N","o">>, <<"n","O">>, <<"N","O">>} :
       Padded(raw, w)

SaysYes(raw) ==
    \E w \in {<<"y">>, <<"Y">>} \cup
             {<<a, b, c>> : a \in {"y","Y"}, b \in {"e","E"}, c \in {"s","S"}} :
       Padded(raw, w)

\* name ends with .pdf in any mix of cases
EndsWithPdfAnyCase(name) ==
    /\ Len(name) >= 4
    /\ name[Len(name) - 3] = "."
    /\ name[Len(name) - 2] \in {"p", "P"}
    /\ name[Len(name) - 1] \in {"d", "D"}
    /\ name[Len(name)] \in {"f", "F"}

-----------------------------------------------------------------------------
(* C1: the exit status is 0 exactly when the run ended in a successful       *)
(* compilation or in the operator's "no", and every fatal condition (wrong   *)
(* argument count, missing input file, failed or empty API call, failed      *)
(* compilation) gives a non-zero status.                                     *)
C1_ExitStatusContract ==
    pc = "exited" =>
        /\ exit_status = 0 <=>
               (compile_result = "true" \/ Msg("aborted", <<>>) \in printed)
        /\ ( \/ Len(sys_argv) # 3
             \/ not_found # <<>>
             \/ Msg("no_response", <<>>) \in printed
             \/ compile_result = "false" ) => exit_status # 0

-----------------------------------------------------------------------------
(* C2: with an invalid API key the run aborts before any input file is       *)
(* opened and never reaches the loading, tailoring, review or compile steps. *)
C2_InvalidKeyAbortsFirst ==
    ~key_valid =>
        /\ opened = <<>> /\ not_found = <<>>
        /\ api_calls = 0
        /\ pc \in {"import", "main", "exited"}

-----------------------------------------------------------------------------
(* C3: the destination is written only after both compiler invocations       *)
(* succeeded and the output file exists in the temporary directory; on a     *)
(* failure path (compiler missing, non-zero exit of either pass, output file *)
(* absent) the destination is never written and the function returns False. *)
C3_CopyOnlyAfterSuccess ==
    /\ written # <<>> =>
           /\ pass_results = <<"ok", "ok">>
           /\ fs_pdf = "present"
           /\ written = <<pdf_filename>>
           /\ compile_result = "true"
    /\ ( \/ \E i \in 1..Len(pass_results) : pass_results[i] # "ok"
         \/ fs_pdf = "absent" ) =>
           /\ written = <<>>
           /\ compile_result = "false"

C3_Witness ==
    /\ pc = "exited"
    /\ written = <<pdf_filename>>
    /\ pass_results = <<"ok", "ok">>
    /\ fs_pdf = "present"

-----------------------------------------------------------------------------
(* C4: the confirmation prompt is asked again until the answer, trimmed and  *)
(* lower-cased, is y, yes, n or no; on n or no in any case and with any      *)
(* surrounding spaces the process exits with status 0, the compiler is never *)
(* run, the filename prompt is never shown and no destination is written.    *)
C4_ConfirmPrompt ==
    /\ [](pc = "exited" /\ ~name_prompted /\ SaysNo(line) =>
              /\ exit_status = 0
              /\ pass_results = <<>> /\ tempdir = "none" /\ written = <<>>)
    /\ [][pc = "confirm" /\ ReadsLine =>
              /\ SaysNo(line') =>
                     /\ pc' = "exited" /\ exit_status' = 0
                     /\ ~name_prompted'
                     /\ pass_results' = <<>> /\ tempdir' = "none" /\ written' = <<>>
              /\ SaysYes(line') => pc' = "naming"
              /\ ~SaysNo(line') /\ ~SaysYes(line') =>
                     pc' = "confirm" /\ exit_status' = -1]_vars

C4_Witness ==
    /\ pc = "exited"
    /\ line = <<Space, "N", "o", Space>>
    /\ exit_status = 0
    /\ ~name_prompted

-----------------------------------------------------------------------------
(* C5: an answer at the filename prompt that contains a path separator is    *)
(* rejected and the prompt asked again, so the filename handed to            *)
(* compile_latex_to_pdf never contains a directory component.                *)
C5_NoDirectoryInFilename ==
    /\ [](HandedToCompiler => Slash \notin Chars(pdf_filename))
    /\ [][pc = "naming" /\ ReadsLine /\ Slash \in Chars(line') =>
              /\ pc' = "naming"
              /\ Msg("invalid_filename", <<>>) \in printed'
              /\ tempdir' = "none"]_vars

C5_Witness ==
    /\ pc = "naming"
    /\ line = <<Slash, "a">>
    /\ Msg("invalid_filename", <<>>) \in printed

-----------------------------------------------------------------------------
(* C6: when an input path does not exist the failure names exactly that      *)
(* path, the process exits non-zero and the tailoring call is never made;    *)
(* the call is made only after both files have been read.                    *)
C6_MissingInputFile ==
    /\ not_found # <<>> =>
           /\ Len(not_found) = 1
           /\ not_found[1] \in {sys_argv[2], sys_argv[3]}
           /\ \E m \in printed : m.kind = "file_not_found"
           /\ \A m \in printed : m.kind = "file_not_found" => m.arg = not_found[1]
           /\ pc = "exited" /\ exit_status # 0 /\ exit_status # -1
           /\ api_calls = 0 /\ full_prompt = <<>>
    /\ api_calls > 0 =>
           /\ opened = <<sys_argv[2], sys_argv[3]>>
           /\ not_found = <<>>

C6_Witness ==
    /\ Len(sys_argv) = 3
    /\ opened = <<sys_argv[2]>>
    /\ not_found = <<sys_argv[3]>>
    /\ sys_argv[3] # sys_argv[2]
    /\ pc = "exited"

-----------------------------------------------------------------------------
(* C7: an empty or null result of the tailoring client (every raised error   *)
(* included; the call is made once, never retried) aborts the run with a     *)
(* non-zero status before the review dump, the confirmation prompt, the      *)
(* filename prompt and the compiler.                                         *)
C7_EmptyResultAborts ==
    /\ api_calls <= 1
    /\ (api_calls > 0 /\ (customized_latex.none \/ Len(customized_latex.text) = 0)) =>
           /\ pc = "exited" /\ exit_status # 0 /\ exit_status # -1
           /\ "review" \notin Kinds
           /\ line = <<>> /\ confirm = <<>>
           /\ ~name_prompted
           /\ pass_results = <<>> /\ tempdir = "none" /\ written = <<>>

C7_Witness ==
    /\ api_calls = 1
    /\ ~customized_latex.none
    /\ customized_latex.text = <<>>
    /\ pc = "exited"

-----------------------------------------------------------------------------
(* C8, as stated: the payload holds, in order, the instruction block, the    *)
(* job-description text and the resume text, and no other pair of texts      *)
(* gives the same payload.                                                   *)

\* Every (job description, resume) pair that could spell the payload p: the
\* job description starts right after the instruction block and its
\* separator, and the resume runs to the end of p.
Readings(p) ==
    LET head == Len(SYSTEM_PROMPT) + Len(JdSeparator)
    IN  {<<SubSeq(p, head + 1, k), SubSeq(p, m, Len(p))>> :
            k \in head..Len(p), m \in (head + 1)..(Len(p) + 1)}

InOrder(p, jd, resume) ==
    LET a == Len(SYSTEM_PROMPT)
        b == a + Len(JdSeparator)
        c == b + Len(jd)
        d == c + Len(ResumeSeparator)
    IN  /\ Len(p) = d + Len(resume)
        /\ SubSeq(p, 1, a) = SYSTEM_PROMPT
        /\ SubSeq(p, a + 1, b) = JdSeparator
        /\ SubSeq(p, b + 1, c) = jd
        /\ SubSeq(p, c + 1, d) = ResumeSeparator
        /\ SubSeq(p, d + 1, Len(p)) = resume

C8_PayloadUnambiguous ==
    api_calls > 0 =>
        /\ InOrder(full_prompt, jd_text, original_resume_latex)
        /\ \A r \in Readings(full_prompt) :
              InOrder(full_prompt, r[1], r[2]) =>
                  r = <<jd_text, original_resume_latex>>

(* C8, amended: the payload holds the three parts in order, and among job    *)
(* descriptions that do not contain the text "--- LATEX RESUME ---" no other *)
(* pair of texts gives the same payload.                                     *)
C8_PayloadUnambiguousWithoutMarker ==
    api_calls > 0 =>
        /\ InOrder(full_prompt, jd_text, original_resume_latex)
        /\ ResumeMarker \notin Chars(jd_text) =>
              \A r \in Readings(full_prompt) :
                  (ResumeMarker \notin Chars(r[1]) /\ InOrder(full_prompt, r[1], r[2]))
                      => r = <<jd_text, original_resume_latex>>

\* the resume itself carries a whole separator, and the payload still reads
\* one way
C8_Witness ==
    /\ api_calls = 1
    /\ jd_text = <<"a">>
    /\ original_resume_latex = <<Newline, Newline, ResumeMarker>>
    /\ Len(full_prompt) > 0

-----------------------------------------------------------------------------
(* C9: the compiler is invoked exactly twice on a call that succeeds and at  *)
(* most twice otherwise; after a failed first invocation there is no second; *)
(* a missing executable gives the "command not found" message and no log,    *)
(* a non-zero exit shows the log file when it exists.                        *)
C9_CompilerInvocations ==
    /\ Len(pass_results) <= 2
    /\ compile_result = "true" => pass_results = <<"ok", "ok">>
    /\ (Len(pass_results) >= 1 /\ pass_results[1] # "ok") =>
           /\ Len(pass_results) = 1
           /\ compile_result = "false"
    /\ \A i \in 1..Len(pass_results) :
          /\ pass_results[i] = "notfound" =>
                /\ "pdflatex_not_found" \in Kinds
                /\ "compilation_log" \notin Kinds
                /\ fs_log = "unknown"
          /\ pass_results[i] = "nonzero" =>
                /\ "pdflatex_not_found" \notin Kinds
                /\ fs_log \in {"present", "absent"}
                /\ "compilation_log" \in Kinds <=> fs_log = "present"

C9_Witness ==
    /\ pc = "exited"
    /\ pass_results = <<"nonzero">>
    /\ fs_log = "present"
    /\ "compilation_log" \in Kinds

-----------------------------------------------------------------------------
(* C10: every accepted filename, typed or the default built from the         *)
(* job-description file's base name with spaces turned into underscores,     *)
(* ends with the extension exactly once: .pdf is appended when the name does *)
(* not end with it in any case, and is not appended when it does.            *)
C10_ExtensionOnce ==
    HandedToCompiler =>
        /\ EndsWithPdfAnyCase(pdf_filename)
        /\ EndsWithPdfAnyCase(chosen) => pdf_filename = chosen
        /\ ~EndsWithPdfAnyCase(chosen) => pdf_filename = chosen \o PdfExtension
        /\ (line # <<>> /\ Space \notin Chars(line)) => chosen = line
        /\ (\A i \in 1..Len(line) : line[i] = Space) =>
              /\ \E company \in SeqUpTo({"a", "b", "d", "_"}, 3) :
                    pdf_filename = DefaultPrefix \o company \o PdfExtension
              /\ sys_argv[3] = <<"d",".","x","/","a"," ","b">> =>
                    pdf_filename = DefaultPrefix \o <<"a","_","b">> \o PdfExtension

C10_Witness ==
    /\ HandedToCompiler
    /\ chosen = <<"a", ".", "P", "d", "F">>
    /\ pdf_filename = chosen

====
